---- MODULE Spec2Model ----
(***************************************************************************)
(* A model of sudoku.py: Cell, Region, UndoRedo, Sudoku, the deduction     *)
(* patterns OnePossibility and Exclusion, BruteForce with its SudokuNode   *)
(* tree, SudokuSolver and SudokuFactory.                                    *)
(*                                                                         *)
(* A cell is a record [editable, value, possible_values]; a board is a     *)
(* record [size, rect_width, rect_height, cells, undo, redo] whose cells   *)
(* are indexed by <<row, column>>.  A Python set of integers below 8 is    *)
(* iterated in ascending order (an int hashes to itself and the table of   *)
(* a set has at least 8 slots), which is the order of the possible values  *)
(* of the 4x4 and 6x6 boards, and of a 9x9 board whose sets were made with *)
(* 9 elements and only shrunk by removals.                                 *)
(***************************************************************************)
EXTENDS Integers, Sequences, FiniteSets, TLC

VARIABLES
    MAX_VALUE,      \* Cell.MAX_VALUE, the class attribute shared by all cells
    sudoku,         \* the caller's Sudoku object (NoSudoku before construction)
    raised,         \* message of the exception raised by the last call, "" if none
    lastCall,       \* name of the last completed call
    pc,             \* position of the running SudokuSolver.solve / Pattern.solve
    frame,          \* local variables of the running solve calls
    nodes,          \* the SudokuNode objects on the path being solved, root first
    sudoku_solved,  \* BruteForce.SudokuNode.sudoku_solved (class attribute)
    result,         \* value returned by the last finished solve call
    calls,          \* number of calls the caller made on its board so far
    trip,           \* progress of a set_cell_value / undo / redo round trip
    region,         \* a stand-alone Region object (list of cells), as in RegionTest
    undo_redo,      \* a stand-alone UndoRedo object, as in UndoRedoTest
    returned,       \* the tuple returned by the last undo / redo of undo_redo
    run,            \* progress of a run of undos followed by redos on undo_redo
    other           \* a second Sudoku object of the caller: a deepcopy of `sudoku`

vars == <<MAX_VALUE, sudoku, raised, lastCall, pc, frame, nodes, sudoku_solved, result, calls, trip, region, undo_redo, returned, run, other>>

----------------------------------------------------------------------------
(* Bounds of the model *)

\* number of calls the caller makes on its board
MaxCalls == 3
\* number of values the caller places before calling a pattern or the solver
MaxPlaced == 1
\* number of clues of the 9x9 puzzle that may be left out when solve is called
MaxMissing == 3
\* number of cells of a stand-alone region
MaxRegionCells == 3
\* number of actions on the undo list of a stand-alone UndoRedo
MaxActions == 3
\* number of set_cell_value calls on the copy of a board before copy_from
MaxReplay == 2
\* number of calls of any kind the caller makes on its board, in any order
MaxOps == 3

----------------------------------------------------------------------------
(* Generic helpers *)

Range(s) == {s[i] : i \in DOMAIN s}

Min(S) == CHOOSE x \in S : \A y \in S : x <= y

\* iteration order of a Python set of small ints: ascending
RECURSIVE SetOrder(_)
SetOrder(S) == IF S = {} THEN <<>> ELSE <<Min(S)>> \o SetOrder(S \ {Min(S)})

----------------------------------------------------------------------------
(* Cell *)

\* Cell.__init__: the message of the AttributeError it raises, "" if none
CellInitError(row, column, editable, value, max) ==
    IF editable = FALSE /\ value = 0 THEN "Cell not editable and without value"
    ELSE IF value < 0 \/ value > max THEN "Incorrect value"
    ELSE IF ~(0 <= row /\ row < max) \/ ~(0 <= column /\ column < max)
         THEN "Incorrect row or column"
    ELSE ""

\* as Cell.__init__, but the possible values are filled whatever editable is
CellInitFull(editable, value, max) ==
    [editable |-> editable,
     value |-> value,
     possible_values |-> 1..max]

\* Cell.__init__: the constructed cell
CellInit(editable, value, max) ==
    [editable |-> editable,
     value |-> value,
     possible_values |-> IF editable THEN 1..max ELSE {}]

\* as the value setter, but the range of the value is tested first
CellSetValueErrorRangeFirst(cell, value, max) ==
    IF value < 0 \/ value > max THEN "Incorrect value"
    ELSE IF cell.editable = FALSE THEN "Cell not editable"
    ELSE ""

\* Cell.value setter: the message of the AttributeError it raises, "" if none
CellSetValueError(cell, value, max) ==
    IF cell.editable = FALSE THEN "Cell not editable"
    ELSE IF value < 0 \/ value > max THEN "Incorrect value"
    ELSE ""

\* as the value setter, but the possible values are never cleared
CellSetValueKeep(cell, value) == [cell EXCEPT !.value = value]

\* Cell.value setter on success
CellSetValue(cell, value) ==
    IF value = 0 THEN [cell EXCEPT !.value = value]
    ELSE [cell EXCEPT !.value = value, !.possible_values = {}]

\* Cell.intersect_possible_values
CellIntersect(cell, values) ==
    [cell EXCEPT !.possible_values = @ \cap values]

\* Cell.remove_possible_value
CellRemovePossibleValue(cell, value) ==
    IF value \in cell.possible_values
    THEN [cell EXCEPT !.possible_values = @ \ {value}]
    ELSE cell

----------------------------------------------------------------------------
(* Region: a sequence of keys into a cell store `cells` *)

\* as the first loop of update_possible_values, but no value is removed
RegionAllValues(cells, reg) == 1..Len(reg)

\* first loop of Region.update_possible_values: the values left for empty cells
RegionFreeValues(cells, reg) ==
    (1..Len(reg)) \ {cells[reg[i]].value : i \in DOMAIN reg}

\* Region.update_possible_values
RegionUpdatePossibleValues(cells, reg) ==
    LET values == RegionFreeValues(cells, reg)
    IN  [k \in DOMAIN cells |->
            IF k \in Range(reg) /\ cells[k].value = 0
            THEN CellIntersect(cells[k], values)
            ELSE cells[k]]

\* as remove_possible_value_if_cell_is_in_region, but the value is removed
\* from the given cell only and not from the other cells of the region
RegionRemoveFromCellOnly(cells, reg, key, value) ==
    IF key \in Range(reg)
    THEN [cells EXCEPT ![key] = CellRemovePossibleValue(@, value)]
    ELSE cells

\* Region.remove_possible_value_if_cell_is_in_region
RegionRemovePossibleValue(cells, reg, key, value) ==
    IF key \in Range(reg)
    THEN [k \in DOMAIN cells |->
            IF k \in Range(reg) THEN CellRemovePossibleValue(cells[k], value)
            ELSE cells[k]]
    ELSE cells

\* Region.is_solved
RegionIsSolved(cells, reg) ==
    {cells[reg[i]].value : i \in DOMAIN reg} = 1..Len(reg)

\* as is_not_possible_to_solve, but without the test for a value seen before
RECURSIVE RegionWrongNoRepeatTest(_, _, _, _)
RegionWrongNoRepeatTest(cells, reg, i, a_set) ==
    IF i > Len(reg) THEN FALSE
    ELSE LET cell == cells[reg[i]]
         IN  IF cell.value = 0 /\ Cardinality(cell.possible_values) = 0 THEN TRUE
             ELSE RegionWrongNoRepeatTest(cells, reg, i + 1, a_set)

\* Region.is_not_possible_to_solve: the loop from position i with a_set seen so far
RECURSIVE RegionWrongFrom(_, _, _, _)
RegionWrongFrom(cells, reg, i, a_set) ==
    IF i > Len(reg) THEN FALSE
    ELSE LET cell == cells[reg[i]]
         IN  IF cell.value = 0 /\ Cardinality(cell.possible_values) = 0 THEN TRUE
             ELSE IF cell.value \in a_set THEN TRUE
             ELSE IF cell.value # 0
                  THEN RegionWrongFrom(cells, reg, i + 1, a_set \cup {cell.value})
             ELSE RegionWrongFrom(cells, reg, i + 1, a_set)

RegionIsNotPossibleToSolve(cells, reg) == RegionWrongFrom(cells, reg, 1, {})

----------------------------------------------------------------------------
(* UndoRedo *)

\* as add_action, but the redo list is kept
AddActionKeepRedo(b, row, column, old_value, value, method) ==
    [b EXCEPT !.undo = Append(@, <<row, column, old_value, value, method>>)]

\* UndoRedo.add_action on a board's lists
AddAction(b, row, column, old_value, value, method) ==
    [b EXCEPT !.undo = Append(@, <<row, column, old_value, value, method>>),
              !.redo = <<>>]

\* UndoRedo.undo: the lists after the call
UndoLists(b) ==
    [b EXCEPT !.undo = SubSeq(@, 1, Len(@) - 1),
              !.redo = Append(@, b.undo[Len(b.undo)])]

\* UndoRedo.undo, line 271: the tuple returned (the action, then both lengths)
UndoReturn(b) == b.undo[Len(b.undo)] \o <<Len(b.undo) - 1, Len(b.redo) + 1>>

\* UndoRedo.redo, line 284: the tuple returned (the action, then both lengths)
RedoReturn(b) == b.redo[Len(b.redo)] \o <<Len(b.undo) + 1, Len(b.redo) - 1>>

\* as redo, but the action is not appended to the undo list
RedoListsNoAppend(b) ==
    [b EXCEPT !.redo = SubSeq(@, 1, Len(@) - 1)]

\* UndoRedo.redo: the lists after the call
RedoLists(b) ==
    [b EXCEPT !.redo = SubSeq(@, 1, Len(@) - 1),
              !.undo = Append(@, b.redo[Len(b.redo)])]

----------------------------------------------------------------------------
(* Sudoku *)

NoSudoku == [size |-> 0]

\* SudokuFactory.POSSIBLE_SIZES: size -> (rect_width, rect_height)
POSSIBLE_SIZES == (4 :> <<2, 2>>) @@ (6 :> <<3, 2>>) @@ (9 :> <<3, 3>>)

Keys(size) == (0..(size - 1)) \X (0..(size - 1))

\* as BuildRegions, but a rectangle spans size / rect_height rows and
\* size / rect_width columns
BuildRegionsSwapped(size, rect_width, rect_height) ==
    LET rows == size
        rectangles == (size * size) \div (rect_width * rect_height)
        width_size == size \div rect_height
        height_size == size \div rect_width
        Row(r) == [i \in 1..size |-> <<r, i - 1>>]
        Col(c) == [i \in 1..size |-> <<i - 1, c>>]
        Rect(n) ==
            LET x_start == n \div width_size
                y_start == n % width_size
            IN  [i \in 1..(width_size * height_size) |->
                    <<x_start * width_size + ((i - 1) \div height_size),
                      y_start * height_size + ((i - 1) % height_size)>>]
    IN  [j \in 1..(rows + rows + rectangles) |->
            IF j <= rows THEN Row(j - 1)
            ELSE IF j <= 2 * rows THEN Col(j - rows - 1)
            ELSE Rect(j - 2 * rows - 1)]

\* Sudoku.__init__, lines 311-329: the list of regions (rows, columns, rectangles)
BuildRegions(size, rect_width, rect_height) ==
    LET rows == size
        rectangles == (size * size) \div (rect_width * rect_height)
        width_size == size \div rect_width
        height_size == size \div rect_height
        Row(r) == [i \in 1..size |-> <<r, i - 1>>]
        Col(c) == [i \in 1..size |-> <<i - 1, c>>]
        Rect(n) ==
            LET x_start == n \div width_size
                y_start == n % width_size
            IN  [i \in 1..(width_size * height_size) |->
                    <<x_start * width_size + ((i - 1) \div height_size),
                      y_start * height_size + ((i - 1) % height_size)>>]
    IN  [j \in 1..(rows + rows + rectangles) |->
            IF j <= rows THEN Row(j - 1)
            ELSE IF j <= 2 * rows THEN Col(j - rows - 1)
            ELSE Rect(j - 2 * rows - 1)]

\* the region lists of the supported board shapes, built once
RegionTable == [s \in DOMAIN POSSIBLE_SIZES |->
                   BuildRegions(s, POSSIBLE_SIZES[s][1], POSSIBLE_SIZES[s][2])]

\* Sudoku.regions
Regions(b) == RegionTable[b.size]

\* Sudoku.update_possible_values_in_all_regions: regions j..end in order
RECURSIVE UpdateFrom(_, _, _)
UpdateFrom(cells, regs, j) ==
    IF j > Len(regs) THEN cells
    ELSE UpdateFrom(RegionUpdatePossibleValues(cells, regs[j]), regs, j + 1)

UpdatePossibleValuesInAllRegions(b) ==
    [b EXCEPT !.cells = UpdateFrom(b.cells, Regions(b), 1)]

\* as Sudoku.__init__, but without update_possible_values_in_all_regions
SudokuInitNoUpdate(cells, size, rect_width, rect_height) ==
    [size |-> size, rect_width |-> rect_width, rect_height |-> rect_height,
     cells |-> cells, undo |-> <<>>, redo |-> <<>>]

\* Sudoku.__init__ with a prepared list of cells
SudokuInit(cells, size, rect_width, rect_height) ==
    UpdatePossibleValuesInAllRegions(
        [size |-> size, rect_width |-> rect_width, rect_height |-> rect_height,
         cells |-> cells, undo |-> <<>>, redo |-> <<>>])

\* Sudoku.__init__ with cells=None: the error of the first failing Cell(r, c)
SudokuNewError(size, max) ==
    IF \E k \in Keys(size) : CellInitError(k[1], k[2], TRUE, 0, max) # ""
    THEN "Incorrect row or column"
    ELSE ""

\* Sudoku.__init__ with cells=None
SudokuNew(size, max) ==
    SudokuInit([k \in Keys(size) |-> CellInit(TRUE, 0, max)],
               size, POSSIBLE_SIZES[size][1], POSSIBLE_SIZES[size][2])

\* Sudoku._is_row_and_column_in_range
IsRowAndColumnInRange(b, row, column) ==
    (0 <= row /\ row < b.size) /\ (0 <= column /\ column < b.size)

\* Sudoku._remove_possible_value: regions j..end in order
RECURSIVE RemoveFrom(_, _, _, _, _)
RemoveFrom(cells, regs, j, key, value) ==
    IF j > Len(regs) THEN cells
    ELSE RemoveFrom(RegionRemovePossibleValue(cells, regs[j], key, value),
                    regs, j + 1, key, value)

\* as _remove_possible_value, but only the cell's row is handled
RemovePossibleValueRowOnly(b, key, value) ==
    [b EXCEPT !.cells = RegionRemovePossibleValue(b.cells, Regions(b)[key[1] + 1], key, value)]

RemovePossibleValue(b, key, value) ==
    [b EXCEPT !.cells = RemoveFrom(b.cells, Regions(b), 1, key, value)]

\* Sudoku.set_cell_value: the message of the AttributeError it raises, "" if none
SetCellValueError(b, row, column, value, max) ==
    IF ~IsRowAndColumnInRange(b, row, column) THEN "Row or column out of range"
    ELSE CellSetValueError(b.cells[<<row, column>>], value, max)

\* Sudoku.set_cell_value on success
SetCellValue(b, row, column, value, method) ==
    LET key == <<row, column>>
        old_value == b.cells[key].value
        b1 == [b EXCEPT !.cells[key] = CellSetValue(@, value)]
        b2 == RemovePossibleValue(b1, key, value)
    IN  AddAction(b2, row, column, old_value, value, method)

\* Sudoku.is_solved
IsSolved(b) == \A j \in DOMAIN Regions(b) : RegionIsSolved(b.cells, Regions(b)[j])

\* as is_wrong, but the result of the first region is returned
IsWrongFirstRegion(b) == RegionIsNotPossibleToSolve(b.cells, Regions(b)[1])

\* Sudoku.is_wrong
IsWrong(b) == \E j \in DOMAIN Regions(b) : RegionIsNotPossibleToSolve(b.cells, Regions(b)[j])

\* as CopyFromStart, but the first action beyond the own list is skipped
CopyFromStartNext(d) == Len(d.undo) + 2

\* Sudoku.copy_from, line 484: the first position (from 1) of the source's undo
\* list that is replayed
CopyFromStart(d) == Len(d.undo) + 1

\* Sudoku.copy_from: the loop from position i of the source's undo list; the
\* board reached and the message of the AttributeError that ended it, "" if none
RECURSIVE CopyFromLoop(_, _, _, _)
CopyFromLoop(d, s, i, max) ==
    IF i > Len(s.undo) THEN [board |-> d, err |-> ""]
    ELSE LET a == s.undo[i]
             err == SetCellValueError(d, a[1], a[2], a[4], max)
         IN  IF err # "" THEN [board |-> d, err |-> err]
             ELSE CopyFromLoop(SetCellValue(d, a[1], a[2], a[4], a[5]), s, i + 1, max)

\* Sudoku.copy_from
CopyFrom(d, s, max) == CopyFromLoop(d, s, CopyFromStart(d), max)

\* Sudoku.to_string: the rows of digits
SudokuToString(b) == [r \in 1..b.size |-> [c \in 1..b.size |-> b.cells[<<r - 1, c - 1>>].value]]

----------------------------------------------------------------------------
(* SudokuFactory *)

\* a line of the input text is a sequence of characters: a digit 0..9, or -1
\* for any other character; str.isdigit is true of non-empty all-digit lines
IsDigit(line) == Len(line) > 0 /\ \A i \in DOMAIN line : line[i] >= 0

\* lines 812-816: the digit lines, in order
DigitLines(text) == SelectSeq(text, IsDigit)

\* SudokuFactory.create_from_string: the exception it raises, "" if none
FactoryError(text) ==
    LET lines == DigitLines(text)
        size == Len(lines)
    IN  IF \E i \in DOMAIN lines : Len(lines[i]) # size \/ size \notin DOMAIN POSSIBLE_SIZES
        THEN "ValueError"
        ELSE IF \E r \in 1..size, c \in 1..size :
                    CellInitError(r - 1, c - 1, lines[r][c] = 0, lines[r][c], size) # ""
             THEN "Incorrect value"
        ELSE IF size \notin DOMAIN POSSIBLE_SIZES THEN "KeyError"
        ELSE ""

\* SudokuFactory.create_from_string: Cell.MAX_VALUE after the call
FactoryMaxValue(text, max) ==
    IF FactoryError(text) = "ValueError" THEN max ELSE Len(DigitLines(text))

\* SudokuFactory.create_from_string: the board returned
CreateFromString(text) ==
    LET lines == DigitLines(text)
        size == Len(lines)
    IN  SudokuInit([k \in Keys(size) |->
                       LET value == lines[k[1] + 1][k[2] + 1]
                       IN  IF value # 0 THEN CellInit(FALSE, value, size)
                           ELSE CellInit(TRUE, 0, size)],
                   size, POSSIBLE_SIZES[size][1], POSSIBLE_SIZES[size][2])

----------------------------------------------------------------------------
(* The callers: state of the running calls *)

\* trip.stage: 1 after a set_cell_value that wrote a non-zero value to an empty
\* cell (trip.board is the board it left), 2 after the undo that followed it at
\* once, 3 after the redo that followed that undo at once; 0 otherwise
NoTrip == [stage |-> 0, board |-> NoSudoku]

\* no call is running
IdleFrame ==
    [caller |-> "none", rule |-> 0, solve_one |-> FALSE, pos |-> 0,
     was_changed |-> FALSE, pend |-> <<>>, restart |-> FALSE, entry |-> NoSudoku]

\* the board the running pattern works on: the top node's copy inside
\* BruteForce, the caller's board otherwise
Target == IF frame.caller = "node" THEN nodes[Len(nodes)].sudoku ELSE sudoku

\* as SetTarget, but a node's pattern writes to the caller's board
SetTargetCaller(b) == sudoku' = b /\ UNCHANGED nodes

SetTarget(b) ==
    IF frame.caller = "node"
    THEN nodes' = [nodes EXCEPT ![Len(nodes)].sudoku = b] /\ UNCHANGED sudoku
    ELSE sudoku' = b /\ UNCHANGED nodes

\* an exception leaves every running call
Raise(msg, op) ==
    /\ pc' = "idle"
    /\ raised' = msg
    /\ result' = "raised"
    /\ lastCall' = op
    /\ frame' = [IdleFrame EXCEPT !.entry = frame.entry]

----------------------------------------------------------------------------
(* Construction *)

\* SudokuFactory.create_from_string(text); keep: the caller stores the result
\* in `sudoku`, otherwise the new board is another object that is dropped
CreateFromStringCall(text, keep) ==
    /\ pc = "idle"
    /\ keep => sudoku = NoSudoku
    /\ MAX_VALUE' = FactoryMaxValue(text, MAX_VALUE)
    /\ raised' = FactoryError(text)
    /\ sudoku' = IF keep /\ FactoryError(text) = "" THEN CreateFromString(text) ELSE sudoku
    /\ lastCall' = "create_from_string"
    /\ frame' = IdleFrame
    /\ calls' = calls + 1
    /\ trip' = NoTrip
    /\ UNCHANGED <<pc, nodes, sudoku_solved, result, region, undo_redo, returned, run, other>>

\* Sudoku(size, None, rect_width, rect_height) with the box shape of the size
NewSudokuCall(size, keep) ==
    /\ pc = "idle"
    /\ keep => sudoku = NoSudoku
    /\ raised' = SudokuNewError(size, MAX_VALUE)
    /\ sudoku' = IF keep /\ SudokuNewError(size, MAX_VALUE) = ""
                 THEN SudokuNew(size, MAX_VALUE) ELSE sudoku
    /\ lastCall' = "Sudoku"
    /\ frame' = IdleFrame
    /\ calls' = calls + 1
    /\ trip' = NoTrip
    /\ UNCHANGED <<MAX_VALUE, pc, nodes, sudoku_solved, result, region, undo_redo, returned, run, other>>

----------------------------------------------------------------------------
(* Calls on the caller's board *)

\* sudoku.set_cell_value(row, column, value)
SetCellValueCall(row, column, value) ==
    /\ pc = "idle"
    /\ sudoku # NoSudoku
    /\ raised' = SetCellValueError(sudoku, row, column, value, MAX_VALUE)
    /\ sudoku' = IF SetCellValueError(sudoku, row, column, value, MAX_VALUE) = ""
                 THEN SetCellValue(sudoku, row, column, value, "")
                 ELSE sudoku
    /\ lastCall' = "set_cell_value"
    /\ frame' = IdleFrame
    /\ calls' = calls + 1
    /\ trip' = IF SetCellValueError(sudoku, row, column, value, MAX_VALUE) = ""
                  /\ value # 0 /\ sudoku.cells[<<row, column>>].value = 0
               THEN [stage |-> 1, board |-> sudoku'] ELSE NoTrip
    /\ UNCHANGED <<MAX_VALUE, pc, nodes, sudoku_solved, result, region, undo_redo, returned, run, other>>

\* sudoku.update_possible_values_in_all_regions()
RefreshCall ==
    /\ pc = "idle"
    /\ sudoku # NoSudoku
    /\ sudoku' = UpdatePossibleValuesInAllRegions(sudoku)
    /\ raised' = ""
    /\ lastCall' = "update_possible_values_in_all_regions"
    /\ frame' = IdleFrame
    /\ calls' = calls + 1
    /\ trip' = NoTrip
    /\ UNCHANGED <<MAX_VALUE, pc, nodes, sudoku_solved, result, region, undo_redo, returned, run, other>>

\* the caller's use of an action returned by UndoRedo.undo / UndoRedo.redo
\* (docstrings, lines 260-263 and 274-276): write the value to the cell without
\* add_action, then refresh the possible values
ApplyRaw(b, row, column, value) ==
    UpdatePossibleValuesInAllRegions(
        [b EXCEPT !.cells[<<row, column>>] = CellSetValue(@, value)])

\* undo: pop the last action, write its old_value
UndoBoard(b) ==
    LET a == b.undo[Len(b.undo)]
    IN  ApplyRaw(UndoLists(b), a[1], a[2], a[3])

\* redo: pop the undone action, write its value
RedoBoard(b) ==
    LET a == b.redo[Len(b.redo)]
    IN  ApplyRaw(RedoLists(b), a[1], a[2], a[4])

UndoCall ==
    /\ pc = "idle"
    /\ sudoku # NoSudoku
    /\ Len(sudoku.undo) > 0
    /\ LET a == sudoku.undo[Len(sudoku.undo)]
           err == CellSetValueError(sudoku.cells[<<a[1], a[2]>>], a[3], MAX_VALUE)
       IN  /\ raised' = err
           /\ sudoku' = IF err = "" THEN UndoBoard(sudoku) ELSE UndoLists(sudoku)
    /\ lastCall' = "undo"
    /\ frame' = IdleFrame
    /\ calls' = calls + 1
    /\ trip' = IF trip.stage = 1 THEN [trip EXCEPT !.stage = 2] ELSE NoTrip
    /\ UNCHANGED <<MAX_VALUE, pc, nodes, sudoku_solved, result, region, undo_redo, returned, run, other>>

RedoCall ==
    /\ pc = "idle"
    /\ sudoku # NoSudoku
    /\ Len(sudoku.redo) > 0
    /\ LET a == sudoku.redo[Len(sudoku.redo)]
           err == CellSetValueError(sudoku.cells[<<a[1], a[2]>>], a[4], MAX_VALUE)
       IN  /\ raised' = err
           /\ sudoku' = IF err = "" THEN RedoBoard(sudoku) ELSE RedoLists(sudoku)
    /\ lastCall' = "redo"
    /\ frame' = IdleFrame
    /\ calls' = calls + 1
    /\ trip' = IF trip.stage = 2 THEN [trip EXCEPT !.stage = 3] ELSE NoTrip
    /\ UNCHANGED <<MAX_VALUE, pc, nodes, sudoku_solved, result, region, undo_redo, returned, run, other>>

----------------------------------------------------------------------------
(* Patterns: OnePossibility and Exclusion *)

\* the patterns of Pattern.get_patterns_without_brute_force, in list order
OnePossibility == 1
Exclusion == 2

PatternName(rule) == IF rule = OnePossibility THEN "OnePossibility" ELSE "Exclusion"

\* Exclusion.solve, lines 647-652: the keys of count_possibilities_dict in
\* insertion order after the cells i..end of the region were read
RECURSIVE DictKeysFrom(_, _, _, _)
DictKeysFrom(cells, reg, i, keys) ==
    IF i > Len(reg) THEN keys
    ELSE LET new == SelectSeq(SetOrder(cells[reg[i]].possible_values),
                              LAMBDA v : v \notin Range(keys))
         IN  DictKeysFrom(cells, reg, i + 1, keys \o new)

\* the cells_list of a value: the region's cells that have it as possible value
CellsList(cells, reg, value) ==
    SelectSeq(reg, LAMBDA k : value \in cells[k].possible_values)

\* as CountOne, but the test of the count is left out
CountOneAny(cells, reg) ==
    LET keys == DictKeysFrom(cells, reg, 1, <<>>)
    IN  [n \in DOMAIN keys |-> <<keys[n], CellsList(cells, reg, keys[n])[1]>>]

\* lines 654-656: the (value, cells_list[0]) pairs whose count is 1, in dict order
CountOne(cells, reg) ==
    LET keys == DictKeysFrom(cells, reg, 1, <<>>)
        ones == SelectSeq(keys, LAMBDA v : Len(CellsList(cells, reg, v)) = 1)
    IN  [n \in DOMAIN ones |-> <<ones[n], CellsList(cells, reg, ones[n])[1]>>]

\* a pattern's solve(sudoku, solve_one) is entered
EnterPattern(caller, rule, solve_one, restart, entry) ==
    [caller |-> caller, rule |-> rule, solve_one |-> solve_one, pos |-> 1,
     was_changed |-> FALSE, pend |-> <<>>, restart |-> restart, entry |-> entry]

\* the pattern returns `value` to its caller
ReturnPattern(value) ==
    /\ pc' = "returned"
    /\ frame' = [frame EXCEPT !.was_changed = value, !.pend = <<>>]

\* OnePossibility.solve, lines 603-606: the positions (row-major, from pos on)
\* of the cells with exactly one possible value
Singles(b, pos) ==
    {p \in pos..(b.size * b.size) :
        Cardinality(b.cells[<<(p - 1) \div b.size, (p - 1) % b.size>>].possible_values) = 1}

\* OnePossibility.solve: the loop over rows and columns runs up to its next
\* write (lines 607-610), or to its end (line 611)
OnePossibilityStep ==
    /\ pc = "pattern"
    /\ frame.rule = OnePossibility
    /\ LET size == Target.size
           found == Singles(Target, frame.pos)
           row == (Min(found) - 1) \div size
           column == (Min(found) - 1) % size
           value == SetOrder(Target.cells[<<row, column>>].possible_values)[1]
           err == SetCellValueError(Target, row, column, value, MAX_VALUE)
       IN  IF found = {}
           THEN /\ ReturnPattern(frame.was_changed)
                /\ UNCHANGED <<sudoku, nodes, raised, result, lastCall>>
           ELSE IF err # ""
           THEN /\ Raise(err, "solve")
                /\ nodes' = <<>>
                /\ UNCHANGED sudoku
           ELSE /\ SetTarget(SetCellValue(Target, row, column, value,
                                          PatternName(OnePossibility)))
                /\ IF frame.solve_one
                   THEN ReturnPattern(TRUE)
                   ELSE /\ frame' = [frame EXCEPT !.pos = Min(found) + 1,
                                                  !.was_changed = TRUE]
                        /\ pc' = pc
                /\ UNCHANGED <<raised, result, lastCall>>
    /\ UNCHANGED <<MAX_VALUE, sudoku_solved, calls, trip, region, undo_redo, returned, run, other>>

\* Exclusion.solve, line 646: the regions from pos on in which some value has count 1
Countable(b, pos) ==
    {j \in pos..Len(Regions(b)) : CountOne(b.cells, Regions(b)[j]) # <<>>}

\* Exclusion.solve: the loops run up to the next write (line 656): the next
\* pending one of the region being handled, else the first one of the next
\* region that has one; or to the end (line 659)
ExclusionStep ==
    /\ pc = "pattern"
    /\ frame.rule = Exclusion
    /\ LET found == Countable(Target, frame.pos)
           pend == IF frame.pend # <<>> THEN frame.pend
                   ELSE CountOne(Target.cells, Regions(Target)[Min(found)])
           pos == IF frame.pend # <<>> THEN frame.pos ELSE Min(found) + 1
           value == pend[1][1]
           key == pend[1][2]
           err == SetCellValueError(Target, key[1], key[2], value, MAX_VALUE)
       IN  IF frame.pend = <<>> /\ found = {}
           THEN /\ ReturnPattern(frame.was_changed)
                /\ UNCHANGED <<sudoku, nodes, raised, result, lastCall>>
           ELSE IF err # ""
           THEN /\ Raise(err, "solve")
                /\ nodes' = <<>>
                /\ UNCHANGED sudoku
           ELSE /\ SetTarget(SetCellValue(Target, key[1], key[2], value,
                                          PatternName(Exclusion)))
                /\ frame' = [frame EXCEPT !.pend = Tail(pend), !.pos = pos,
                                          !.was_changed = TRUE]
                /\ UNCHANGED <<pc, raised, result, lastCall>>
    /\ UNCHANGED <<MAX_VALUE, sudoku_solved, calls, trip, region, undo_redo, returned, run, other>>

\* pattern.solve(sudoku, solve_one) called directly on the caller's board
PatternCall(rule, solve_one) ==
    /\ pc = "idle"
    /\ sudoku # NoSudoku
    /\ pc' = "pattern"
    /\ frame' = EnterPattern("api", rule, solve_one, FALSE, sudoku)
    /\ raised' = ""
    /\ result' = "running"
    /\ lastCall' = "running"
    /\ calls' = calls + 1
    /\ trip' = NoTrip
    /\ UNCHANGED <<MAX_VALUE, sudoku, nodes, sudoku_solved, region, undo_redo, returned, run, other>>

\* the directly called pattern returns
PatternReturn ==
    /\ pc = "returned"
    /\ frame.caller = "api"
    /\ pc' = "idle"
    /\ result' = IF frame.was_changed THEN "True" ELSE "False"
    /\ lastCall' = PatternName(frame.rule)
    /\ frame' = [IdleFrame EXCEPT !.entry = frame.entry]
    /\ UNCHANGED <<MAX_VALUE, sudoku, raised, nodes, sudoku_solved, calls, trip, region, undo_redo, returned, run, other>>

----------------------------------------------------------------------------
(* SudokuSolver.solve and BruteForce *)

\* SudokuSolver.solve returns sudoku.is_solved()
FinishSolve(b) ==
    /\ pc' = "idle"
    /\ result' = IF IsSolved(b) THEN "True" ELSE "False"
    /\ lastCall' = "solve"
    /\ frame' = [IdleFrame EXCEPT !.entry = frame.entry]
    /\ nodes' = <<>>

\* SudokuSolver(sudoku).solve() is called: first round, first pattern
SolveCall ==
    /\ pc = "idle"
    /\ sudoku # NoSudoku
    /\ pc' = "pattern"
    /\ frame' = EnterPattern("solver", OnePossibility, FALSE, FALSE, sudoku)
    /\ raised' = ""
    /\ result' = "running"
    /\ lastCall' = "running"
    /\ calls' = calls + 1
    /\ trip' = NoTrip
    /\ UNCHANGED <<MAX_VALUE, sudoku, nodes, sudoku_solved, region, undo_redo, returned, run, other>>

\* lines 513-521: a pattern returned solve_again to the loop of SudokuSolver.solve
SolverLoop ==
    /\ pc = "returned"
    /\ frame.caller = "solver"
    /\ LET restart == IF IsSolved(sudoku) THEN FALSE
                      ELSE IF frame.was_changed THEN TRUE ELSE frame.restart
       IN  IF IsSolved(sudoku)
           THEN /\ pc' = "after_loop"
                /\ frame' = [frame EXCEPT !.restart = restart]
           ELSE IF frame.rule = OnePossibility
           THEN /\ pc' = "pattern"
                /\ frame' = EnterPattern("solver", Exclusion, FALSE, restart, frame.entry)
           ELSE IF restart
           THEN /\ pc' = "pattern"
                /\ frame' = EnterPattern("solver", OnePossibility, FALSE, FALSE, frame.entry)
           ELSE /\ pc' = "after_loop"
                /\ frame' = [frame EXCEPT !.restart = restart]
    /\ UNCHANGED <<MAX_VALUE, sudoku, raised, lastCall, nodes, sudoku_solved, result, calls, trip, region, undo_redo, returned, run, other>>

\* a SudokuNode: its own copy of the board and the boards of its children
Node(b) == [sudoku |-> b, children |-> <<>>]

\* lines 523-528 and BruteForce.solve, lines 686-689 and 693
SolverBruteForce ==
    /\ pc = "after_loop"
    /\ IF IsSolved(sudoku)
       THEN /\ FinishSolve(sudoku)
            /\ UNCHANGED <<sudoku, sudoku_solved>>
       ELSE /\ sudoku_solved' = NoSudoku
            /\ IF ~IsWrong(sudoku)
               THEN /\ nodes' = <<Node(sudoku)>>
                    /\ pc' = "pattern"
                    /\ frame' = EnterPattern("node", OnePossibility, FALSE, FALSE, frame.entry)
                    /\ UNCHANGED <<sudoku, result, lastCall>>
               ELSE /\ FinishSolve(sudoku)
                    /\ UNCHANGED sudoku
    /\ UNCHANGED <<MAX_VALUE, raised, calls, trip, region, undo_redo, returned, run, other>>

\* as NodeLoop, but the pattern is repeated whatever it reported
NodeLoopAlways ==
    /\ pc = "returned"
    /\ frame.caller = "node"
    /\ pc' = "pattern"
    /\ frame' = EnterPattern("node", frame.rule, FALSE, FALSE, frame.entry)
    /\ UNCHANGED <<MAX_VALUE, sudoku, raised, lastCall, nodes, sudoku_solved, result, calls, trip, region, undo_redo, returned, run, other>>

\* SudokuNode.solve, lines 744-747: each pattern is repeated while it reports a change
NodeLoop ==
    /\ pc = "returned"
    /\ frame.caller = "node"
    /\ IF frame.was_changed
       THEN /\ pc' = "pattern"
            /\ frame' = EnterPattern("node", frame.rule, FALSE, FALSE, frame.entry)
       ELSE IF frame.rule = OnePossibility
       THEN /\ pc' = "pattern"
            /\ frame' = EnterPattern("node", Exclusion, FALSE, FALSE, frame.entry)
       ELSE /\ pc' = "node_check"
            /\ frame' = frame
    /\ UNCHANGED <<MAX_VALUE, sudoku, raised, lastCall, nodes, sudoku_solved, result, calls, trip, region, undo_redo, returned, run, other>>

\* as FirstEmpty, but the scan keeps the last cell without a value
LastEmpty(b) ==
    LET empty == {p \in 1..(b.size * b.size) :
                     b.cells[<<(p - 1) \div b.size, (p - 1) % b.size>>].value = 0}
        last == CHOOSE p \in empty : \A q \in empty : q <= p
    IN  IF empty = {} THEN <<>>
        ELSE <<(last - 1) \div b.size, (last - 1) % b.size>>

\* lines 756-758: the first cell without a value in row-major order, <<>> if none
FirstEmpty(b) ==
    LET empty == {p \in 1..(b.size * b.size) :
                     b.cells[<<(p - 1) \div b.size, (p - 1) % b.size>>].value = 0}
    IN  IF empty = {} THEN <<>>
        ELSE <<(Min(empty) - 1) \div b.size, (Min(empty) - 1) % b.size>>

\* SudokuNode.__init__ with row, column, value: the error of its set_cell_value
ChildError(b, row, column, value, max) ==
    IF row # -1 /\ column # -1 /\ value > 0
    THEN SetCellValueError(b, row, column, value, max)
    ELSE ""

\* as ChildBoard, but the value is written to the first cell of the board
ChildBoardFirstCell(b, row, column, value) ==
    IF row # -1 /\ column # -1 /\ value > 0
    THEN SetCellValue(b, 0, 0, value, "BruteForce")
    ELSE b

\* SudokuNode.__init__: the copy of the board with the value written
ChildBoard(b, row, column, value) ==
    IF row # -1 /\ column # -1 /\ value > 0
    THEN SetCellValue(b, row, column, value, "BruteForce")
    ELSE b

\* as Children, but in the reverse of the set order
ChildrenReversed(b, key) ==
    LET order == SetOrder(b.cells[key].possible_values)
    IN  [n \in DOMAIN order |->
            ChildBoard(b, key[1], key[2], order[Len(order) + 1 - n])]

\* lines 759-761: the boards of the children, one per possible value, in set order
Children(b, key) ==
    LET order == SetOrder(b.cells[key].possible_values)
    IN  [n \in DOMAIN order |-> ChildBoard(b, key[1], key[2], order[n])]

\* SudokuNode.solve, lines 749-765
NodeCheck ==
    /\ pc = "node_check"
    /\ LET b == Target
           key == FirstEmpty(b)
       IN  IF IsSolved(b)
           THEN /\ sudoku_solved' = b
                /\ pc' = "brute_return"
                /\ UNCHANGED <<nodes, raised, result, lastCall, frame>>
           ELSE IF IsWrong(b)
           THEN /\ pc' = "brute_return"
                /\ UNCHANGED <<nodes, sudoku_solved, raised, result, lastCall, frame>>
           ELSE IF key = <<>>
           THEN /\ pc' = "descend"
                /\ UNCHANGED <<nodes, sudoku_solved, raised, result, lastCall, frame>>
           ELSE IF \E v \in b.cells[key].possible_values :
                       ChildError(b, key[1], key[2], v, MAX_VALUE) # ""
           THEN /\ Raise("Incorrect value", "solve")
                /\ nodes' = <<>>
                /\ UNCHANGED sudoku_solved
           ELSE /\ nodes' = [nodes EXCEPT ![Len(nodes)].children = Children(b, key)]
                /\ pc' = "descend"
                /\ UNCHANGED <<sudoku_solved, raised, result, lastCall, frame>>
    /\ UNCHANGED <<MAX_VALUE, sudoku, calls, trip, region, undo_redo, returned, run, other>>

\* lines 767-768: solve of the first child is returned
Descend ==
    /\ pc = "descend"
    /\ IF nodes[Len(nodes)].children = <<>>
       THEN /\ pc' = "brute_return"
            /\ UNCHANGED <<nodes, frame>>
       ELSE /\ nodes' = Append(nodes, Node(nodes[Len(nodes)].children[1]))
            /\ pc' = "pattern"
            /\ frame' = EnterPattern("node", OnePossibility, FALSE, FALSE, frame.entry)
    /\ UNCHANGED <<MAX_VALUE, sudoku, raised, lastCall, sudoku_solved, result, calls, trip, region, undo_redo, returned, run, other>>

\* BruteForce.solve, lines 690-693, after the root's solve returned
BruteReturn ==
    /\ pc = "brute_return"
    /\ IF sudoku_solved # NoSudoku
       THEN /\ pc' = "copy"
            /\ frame' = [frame EXCEPT !.caller = "solver", !.pos = Len(sudoku.undo)]
            /\ UNCHANGED <<nodes, result, lastCall>>
       ELSE FinishSolve(sudoku)
    /\ UNCHANGED <<MAX_VALUE, sudoku, raised, sudoku_solved, calls, trip, region, undo_redo, returned, run, other>>

\* Sudoku.copy_from, one iteration of the loop over the actions of the copy
CopyFromStep ==
    /\ pc = "copy"
    /\ IF frame.pos >= Len(sudoku_solved.undo)
       THEN /\ FinishSolve(sudoku)
            /\ UNCHANGED <<sudoku, raised>>
       ELSE LET a == sudoku_solved.undo[frame.pos + 1]
                err == SetCellValueError(sudoku, a[1], a[2], a[4], MAX_VALUE)
            IN  IF err # ""
                THEN /\ Raise(err, "solve")
                     /\ nodes' = <<>>
                     /\ UNCHANGED sudoku
                ELSE /\ sudoku' = SetCellValue(sudoku, a[1], a[2], a[4], a[5])
                     /\ frame' = [frame EXCEPT !.pos = @ + 1]
                     /\ UNCHANGED <<pc, nodes, raised, result, lastCall>>
    /\ UNCHANGED <<MAX_VALUE, sudoku_solved, calls, trip, region, undo_redo, returned, run, other>>

\* the steps of a running solve
SolveStep ==
    \/ OnePossibilityStep
    \/ ExclusionStep
    \/ SolverLoop
    \/ SolverBruteForce
    \/ NodeLoop
    \/ NodeCheck
    \/ Descend
    \/ BruteReturn
    \/ CopyFromStep

----------------------------------------------------------------------------
(* Inputs *)

\* the text of an all-empty grid
EmptyText(size) == [r \in 1..size |-> [c \in 1..size |-> 0]]

\* sudoku_test.py, test_solve_4x4: the puzzle and the expected solution
Test4x4 == << <<1,0,0,0>>, <<0,2,0,0>>, <<0,0,3,0>>, <<0,0,0,4>> >>
Solution4x4 == << <<1,3,4,2>>, <<4,2,1,3>>, <<2,4,3,1>>, <<3,1,2,4>> >>

\* two equal clues in the first row
DupRow4x4 == << <<1,1,0,0>>, <<0,0,0,0>>, <<0,0,0,0>>, <<0,0,0,0>> >>
\* one clue: OnePossibility finds nothing before the first guess
OneClue4x4 == << <<0,0,0,0>>, <<0,0,0,0>>, <<0,0,0,0>>, <<1,0,0,0>> >>
\* has a solution, but not under the first possible value of the first cell
TwoClues4x4 == << <<0,0,0,0>>, <<0,0,0,0>>, <<0,4,0,0>>, <<0,2,0,0>> >>
\* no solution, though no region is wrong at the start
Stuck4x4 == << <<0,0,0,0>>, <<0,0,0,0>>, <<0,0,2,1>>, <<4,0,0,0>> >>

\* the texts from which the caller's board is built before calls on it
ApiTexts == {Test4x4, EmptyText(4), EmptyText(6), EmptyText(9)}

\* the texts from which the caller's board is built before it is solved
Texts == {Test4x4, EmptyText(4), DupRow4x4, OneClue4x4, TwoClues4x4, Stuck4x4}

\* the sizes of the other boards built while the caller's board exists
OtherSizes == {4, 9}

\* arguments of the caller's set_cell_value calls on a board of the given size
ArgRows(size) == {0, size}
ArgColumns(size) == {-1, 0, 1}
ArgValues(size) == {-1, 0, 1, 3, size + 1}

\* sudoku_test.py, test_solve: the puzzle, the expected solution, and the
\* set_cell_value calls (row, column, value) that place the clues, in order
Test9x9 ==
    << <<1,0,0,0,0,8,4,0,0>>,
       <<0,2,0,0,0,4,9,0,0>>,
       <<9,0,3,2,5,6,0,0,0>>,
       <<6,0,0,0,0,0,5,7,1>>,
       <<4,1,0,8,0,5,0,6,2>>,
       <<5,3,2,0,0,0,0,0,4>>,
       <<0,0,0,5,8,2,7,0,9>>,
       <<0,0,1,3,0,0,0,4,0>>,
       <<0,0,8,1,0,0,0,0,5>> >>
Solution9x9 ==
    << <<1,7,5,9,3,8,4,2,6>>,
       <<8,2,6,7,1,4,9,5,3>>,
       <<9,4,3,2,5,6,1,8,7>>,
       <<6,8,9,4,2,3,5,7,1>>,
       <<4,1,7,8,9,5,3,6,2>>,
       <<5,3,2,6,7,1,8,9,4>>,
       <<3,6,4,5,8,2,7,1,9>>,
       <<7,5,1,3,6,9,2,4,8>>,
       <<2,9,8,1,4,7,6,3,5>> >>
Clues9x9 ==
    << <<0,0,1>>, <<0,5,8>>, <<0,6,4>>, <<1,1,2>>, <<1,5,4>>, <<1,6,9>>,
       <<2,0,9>>, <<2,2,3>>, <<2,3,2>>, <<2,4,5>>, <<2,5,6>>, <<3,0,6>>,
       <<3,6,5>>, <<3,7,7>>, <<3,8,1>>, <<4,0,4>>, <<4,1,1>>, <<4,3,8>>,
       <<4,5,5>>, <<4,7,6>>, <<4,8,2>>, <<5,0,5>>, <<5,1,3>>, <<5,2,2>>,
       <<5,8,4>>, <<6,3,5>>, <<6,4,8>>, <<6,5,2>>, <<6,6,7>>, <<6,8,9>>,
       <<7,2,1>>, <<7,3,3>>, <<7,7,4>>, <<8,2,8>>, <<8,3,1>>, <<8,8,5>> >>

\* arguments of the calls on a stand-alone region: the (editable, value) of
\* the cells made for it, the values written to its cells, the values removed
CellArgs == {<<TRUE, 0>>, <<TRUE, 2>>, <<FALSE, 1>>, <<FALSE, 5>>, <<FALSE, 0>>, <<TRUE, 10>>}
WriteArgs == {0, 1, 10}
RemoveArgs == {2, 3}

\* texts given to the factory: no line at all, no digit line, three rows, a
\* short row, a long row, five rows, a digit above the size, the 4x4 test
\* puzzle after a line of other characters, and well-formed empty grids
FactoryTexts ==
    { <<>>,
      << <<-1, -1, -1>> >>,
      << <<0,0,0>>, <<0,0,0>>, <<0,0,0>> >>,
      << <<0,0,0,0>>, <<0,0,0>>, <<0,0,0,0>>, <<0,0,0,0>> >>,
      << <<0,0,0,0,0>>, <<0,0,0,0>>, <<0,0,0,0>>, <<0,0,0,0>> >>,
      EmptyText(5),
      << <<5,0,0,0>>, <<0,0,0,0>>, <<0,0,0,0>>, <<0,0,0,0>> >>,
      << <<-1, -1>> >> \o Test4x4,
      EmptyText(4), EmptyText(6), EmptyText(9) }

\* sudoku_test.py, test_undo_redo: the actions added, and one more
Actions == {<<1, 2, 3, 4, "manual">>, <<2, 3, 4, 5, "manually">>, <<0, 0, 0, 1, "">>}

\* no run of undos is in progress on undo_redo
NoRun == [undos |-> 0, redos |-> 0, start |-> [undo |-> <<>>, redo |-> <<>>]]

----------------------------------------------------------------------------
(* Specification: one caller with a board of a supported size *)

Init ==
    /\ MAX_VALUE = 9
    /\ sudoku = NoSudoku
    /\ raised = ""
    /\ lastCall = "none"
    /\ pc = "idle"
    /\ frame = IdleFrame
    /\ nodes = <<>>
    /\ sudoku_solved = NoSudoku
    /\ result = "none"
    /\ calls = 0
    /\ trip = NoTrip
    /\ region = <<>>
    /\ undo_redo = [undo |-> <<>>, redo |-> <<>>]
    /\ returned = <<>>
    /\ run = NoRun
    /\ other = NoSudoku

\* the caller builds a board and makes up to MaxCalls calls: set_cell_value,
\* undo, redo and refresh on its board, and the construction of other boards
Build == calls <= MaxCalls /\ \E text \in ApiTexts : CreateFromStringCall(text, TRUE)
BuildEmpty == calls <= MaxCalls /\ \E size \in DOMAIN POSSIBLE_SIZES : NewSudokuCall(size, TRUE)
BuildOther ==
    /\ calls <= MaxCalls
    /\ \E size \in OtherSizes : CreateFromStringCall(EmptyText(size), FALSE)
Assign ==
    /\ calls <= MaxCalls
    /\ sudoku # NoSudoku
    /\ \E row \in ArgRows(sudoku.size), column \in ArgColumns(sudoku.size),
          value \in ArgValues(sudoku.size) : SetCellValueCall(row, column, value)
Undo == calls <= MaxCalls /\ UndoCall
Redo == calls <= MaxCalls /\ RedoCall
Refresh == calls <= MaxCalls /\ RefreshCall

Next ==
    \/ Build
    \/ BuildEmpty
    \/ BuildOther
    \/ Assign
    \/ Undo
    \/ Redo
    \/ Refresh

Spec == Init /\ [][Next]_vars

----------------------------------------------------------------------------
(* Specification: a 4x4 board is built, up to MaxPlaced values are placed on *)
(* it, then a pattern or the solver is called once                           *)

BuildPuzzle == \E text \in Texts : CreateFromStringCall(text, TRUE)
BuildEmpty4 == NewSudokuCall(4, TRUE)
Place ==
    /\ result = "none"
    /\ sudoku # NoSudoku
    /\ calls <= MaxPlaced
    /\ \E row \in ArgRows(sudoku.size), column \in ArgColumns(sudoku.size),
          value \in ArgValues(sudoku.size) : SetCellValueCall(row, column, value)
ApplyPattern ==
    /\ result = "none"
    /\ \E rule \in {OnePossibility, Exclusion}, solve_one \in BOOLEAN :
          PatternCall(rule, solve_one)
Solve == result = "none" /\ SolveCall

NextSolve ==
    \/ BuildPuzzle
    \/ BuildEmpty4
    \/ Place
    \/ ApplyPattern
    \/ PatternReturn
    \/ Solve
    \/ SolveStep

SpecSolve == Init /\ [][NextSolve]_vars

\* the steps of a running call that only move between the loops
LoopStep ==
    \/ SolverLoop
    \/ SolverBruteForce
    \/ NodeLoop
    \/ Descend
    \/ BruteReturn
    \/ CopyFromStep
    \/ PatternReturn

\* a call that was entered goes on until it returns or raises: the interpreter
\* runs the next step of a running call.  Weak fairness of the pattern steps
\* and of NodeCheck is written out as []<>~enabled \/ []<>step, with their
\* enabling conditions: a pattern step is enabled exactly when pc = "pattern",
\* NodeCheck exactly when pc = "node_check".
FairSolve ==
    /\ SpecSolve
    /\ WF_vars(LoopStep)
    /\ ([]<>(pc # "pattern") \/ []<><<OnePossibilityStep \/ ExclusionStep>>_vars)
    /\ ([]<>(pc # "node_check") \/ []<><<NodeCheck>>_vars)

----------------------------------------------------------------------------
(* Specification: the 9x9 puzzle of test_solve is built by the factory, or  *)
(* its clues are placed in the test's order on an empty board; the solver   *)
(* is called once, on the whole puzzle or with up to MaxMissing clues left  *)

BuildTest9 == CreateFromStringCall(Test9x9, TRUE)
BuildEmpty9 == NewSudokuCall(9, TRUE)
PlaceClue ==
    /\ result = "none"
    /\ sudoku # NoSudoku
    /\ lastCall \in {"Sudoku", "set_cell_value"}
    /\ Len(sudoku.undo) < Len(Clues9x9)
    /\ LET a == Clues9x9[Len(sudoku.undo) + 1]
       IN  SetCellValueCall(a[1], a[2], a[3])
SolveTest9 ==
    /\ result = "none"
    /\ sudoku # NoSudoku
    /\ lastCall = "create_from_string" \/ Len(sudoku.undo) >= Len(Clues9x9) - MaxMissing
    /\ SolveCall

Next9 ==
    \/ BuildTest9
    \/ BuildEmpty9
    \/ PlaceClue
    \/ SolveTest9
    \/ SolveStep

Spec9 == Init /\ [][Next9]_vars

----------------------------------------------------------------------------
(* Specification: a 6x6 board with two clues, or with none, is built by the *)
(* factory and the solver is called once                                    *)

\* two clues in different rows, columns and boxes
TwoClues6x6 ==
    << <<0,0,0,0,0,0>>,
       <<0,0,0,0,0,0>>,
       <<0,0,0,1,0,0>>,
       <<0,3,0,0,0,0>>,
       <<0,0,0,0,0,0>>,
       <<0,0,0,0,0,0>> >>
Texts6 == {TwoClues6x6, EmptyText(6)}

BuildPuzzle6 == \E text \in Texts6 : CreateFromStringCall(text, TRUE)

Next6 ==
    \/ BuildPuzzle6
    \/ Solve
    \/ SolveStep

Spec6 == Init /\ [][Next6]_vars

----------------------------------------------------------------------------
(* Specification: a 4x4 board is built by the factory or made empty, and    *)
(* the caller makes up to MaxOps calls on it in any order: set_cell_value,  *)
(* update_possible_values_in_all_regions, a pattern's solve, the solver     *)

BuildMixed ==
    \E text \in {Test4x4, Stuck4x4, OneClue4x4} : CreateFromStringCall(text, TRUE)
AssignMixed ==
    /\ calls <= MaxOps
    /\ sudoku # NoSudoku
    /\ \E row \in {0, 3}, column \in {0, 1}, value \in {0, 1, 3} :
          SetCellValueCall(row, column, value)
RefreshMixed == calls <= MaxOps /\ RefreshCall
PatternMixed ==
    /\ calls <= MaxOps
    /\ \E rule \in {OnePossibility, Exclusion}, solve_one \in BOOLEAN :
          PatternCall(rule, solve_one)
SolveMixed == calls <= MaxOps /\ SolveCall

NextMixed ==
    \/ BuildMixed
    \/ BuildEmpty4
    \/ AssignMixed
    \/ RefreshMixed
    \/ PatternMixed
    \/ PatternReturn
    \/ SolveMixed
    \/ SolveStep

SpecMixed == Init /\ [][NextMixed]_vars

----------------------------------------------------------------------------
(* Specification: a stand-alone Region, as in RegionTest: cells are made    *)
(* and added, values are written to its cells, possible values are removed  *)
(* and updated                                                              *)

\* region.add(Cell(0, len(region.cells), editable, value)): the cell is a new
\* object, so it is not in the list yet
RegionAddCall(editable, value) ==
    /\ Len(region) < MaxRegionCells
    /\ LET err == CellInitError(0, Len(region), editable, value, MAX_VALUE)
       IN  /\ raised' = err
           /\ region' = IF err = "" THEN Append(region, CellInit(editable, value, MAX_VALUE))
                        ELSE region
    /\ lastCall' = "add"
    /\ UNCHANGED <<MAX_VALUE, sudoku, pc, frame, nodes, sudoku_solved, result, calls, trip, undo_redo, returned, run, other>>

\* region.cells[i - 1].value = value
RegionWriteCall(i, value) ==
    /\ i \in DOMAIN region
    /\ LET err == CellSetValueError(region[i], value, MAX_VALUE)
       IN  /\ raised' = err
           /\ region' = IF err = "" THEN [region EXCEPT ![i] = CellSetValue(@, value)]
                        ELSE region
    /\ lastCall' = "value"
    /\ UNCHANGED <<MAX_VALUE, sudoku, pc, frame, nodes, sudoku_solved, result, calls, trip, undo_redo, returned, run, other>>

\* region.remove_possible_value_if_cell_is_in_region(cell, value): cell is the
\* region's cell i, or for i = 0 a cell that is not in the region
RegionRemoveCall(i, value) ==
    /\ i \in {0} \cup DOMAIN region
    /\ region' = RegionRemovePossibleValue(region, [n \in DOMAIN region |-> n], i, value)
    /\ raised' = ""
    /\ lastCall' = "remove_possible_value_if_cell_is_in_region"
    /\ UNCHANGED <<MAX_VALUE, sudoku, pc, frame, nodes, sudoku_solved, result, calls, trip, undo_redo, returned, run, other>>

\* region.update_possible_values()
RegionUpdateCall ==
    /\ region' = RegionUpdatePossibleValues(region, [n \in DOMAIN region |-> n])
    /\ raised' = ""
    /\ lastCall' = "update_possible_values"
    /\ UNCHANGED <<MAX_VALUE, sudoku, pc, frame, nodes, sudoku_solved, result, calls, trip, undo_redo, returned, run, other>>

RegionAdd == \E a \in CellArgs : RegionAddCall(a[1], a[2])
RegionWrite == \E i \in 1..MaxRegionCells, value \in WriteArgs : RegionWriteCall(i, value)
RegionRemove == \E i \in 0..MaxRegionCells, value \in RemoveArgs : RegionRemoveCall(i, value)
RegionUpdate == RegionUpdateCall

NextRegion ==
    \/ RegionAdd
    \/ RegionWrite
    \/ RegionRemove
    \/ RegionUpdate

SpecRegion == Init /\ [][NextRegion]_vars

----------------------------------------------------------------------------
(* Specification: the caller builds a 4x4 board, may place a value on it,   *)
(* undo and solve it, makes a deepcopy of it, calls set_cell_value on the    *)
(* copy, and then copy_from(copy) on the board                               *)

\* other = copy.deepcopy(sudoku)
DeepcopyCall ==
    /\ pc = "idle"
    /\ sudoku # NoSudoku
    /\ other = NoSudoku
    /\ other' = sudoku
    /\ raised' = ""
    /\ lastCall' = "deepcopy"
    /\ UNCHANGED <<MAX_VALUE, sudoku, pc, frame, nodes, sudoku_solved, result, calls, trip, region, undo_redo, returned, run>>

\* other.set_cell_value(row, column, value)
OtherSetCellValueCall(row, column, value) ==
    /\ pc = "idle"
    /\ other # NoSudoku
    /\ raised' = SetCellValueError(other, row, column, value, MAX_VALUE)
    /\ other' = IF SetCellValueError(other, row, column, value, MAX_VALUE) = ""
                THEN SetCellValue(other, row, column, value, "")
                ELSE other
    /\ lastCall' = "other.set_cell_value"
    /\ UNCHANGED <<MAX_VALUE, sudoku, pc, frame, nodes, sudoku_solved, result, calls, trip, region, undo_redo, returned, run>>

\* sudoku.copy_from(other)
CopyFromCall ==
    /\ pc = "idle"
    /\ other # NoSudoku
    /\ sudoku' = CopyFrom(sudoku, other, MAX_VALUE).board
    /\ raised' = CopyFrom(sudoku, other, MAX_VALUE).err
    /\ lastCall' = "copy_from"
    /\ UNCHANGED <<MAX_VALUE, pc, frame, nodes, sudoku_solved, result, calls, trip, region, undo_redo, returned, run, other>>

BuildToCopy == \E text \in {Test4x4, EmptyText(4)} : CreateFromStringCall(text, TRUE)
PlaceBefore == other = NoSudoku /\ Place
UndoBefore == other = NoSudoku /\ calls <= MaxPlaced + 1 /\ UndoCall
SolveBefore == other = NoSudoku /\ Solve
Deepcopy == DeepcopyCall
PlaceOnCopy ==
    /\ other # NoSudoku
    /\ lastCall # "copy_from"
    /\ Len(other.undo) < Len(sudoku.undo) + MaxReplay
    /\ \E row \in ArgRows(other.size), column \in ArgColumns(other.size),
          value \in ArgValues(other.size) : OtherSetCellValueCall(row, column, value)
CopyBack == CopyFromCall

NextCopy ==
    \/ BuildToCopy
    \/ BuildEmpty4
    \/ PlaceBefore
    \/ UndoBefore
    \/ SolveBefore
    \/ SolveStep
    \/ Deepcopy
    \/ PlaceOnCopy
    \/ CopyBack

SpecCopy == Init /\ [][NextCopy]_vars

----------------------------------------------------------------------------
(* Specification: the caller gives texts to the factory until it returns a  *)
(* board, and calls set_cell_value on that board                             *)

BuildFromText == calls <= MaxCalls /\ \E text \in FactoryTexts : CreateFromStringCall(text, TRUE)

NextFactory ==
    \/ BuildFromText
    \/ Assign

SpecFactory == Init /\ [][NextFactory]_vars

----------------------------------------------------------------------------
(* Specification: a stand-alone UndoRedo, as in UndoRedoTest.  run.undos is  *)
(* the number of undos made in a row since run.start, run.redos the number  *)
(* of redos made in a row after them                                         *)

\* undo_redo.add_action(*action)
AddActionCall(action) ==
    /\ Len(undo_redo.undo) < MaxActions
    /\ undo_redo' = AddAction(undo_redo, action[1], action[2], action[3], action[4], action[5])
    /\ raised' = ""
    /\ lastCall' = "add_action"
    /\ run' = NoRun
    /\ UNCHANGED <<MAX_VALUE, sudoku, pc, frame, nodes, sudoku_solved, result, calls, trip, region, returned, other>>

\* undo_redo.undo(): list.pop raises IndexError on an empty list
UndoRedoUndoCall ==
    /\ IF undo_redo.undo = <<>>
       THEN /\ raised' = "IndexError"
            /\ run' = NoRun
            /\ UNCHANGED <<undo_redo, returned>>
       ELSE /\ raised' = ""
            /\ undo_redo' = UndoLists(undo_redo)
            /\ returned' = UndoReturn(undo_redo)
            /\ run' = IF run.undos > 0 /\ run.redos = 0
                      THEN [run EXCEPT !.undos = @ + 1]
                      ELSE [undos |-> 1, redos |-> 0, start |-> undo_redo]
    /\ lastCall' = "undo"
    /\ UNCHANGED <<MAX_VALUE, sudoku, pc, frame, nodes, sudoku_solved, result, calls, trip, region, other>>

\* undo_redo.redo(): list.pop raises IndexError on an empty list
UndoRedoRedoCall ==
    /\ IF undo_redo.redo = <<>>
       THEN /\ raised' = "IndexError"
            /\ run' = NoRun
            /\ UNCHANGED <<undo_redo, returned>>
       ELSE /\ raised' = ""
            /\ undo_redo' = RedoLists(undo_redo)
            /\ returned' = RedoReturn(undo_redo)
            /\ run' = IF run.redos < run.undos
                      THEN [run EXCEPT !.redos = @ + 1]
                      ELSE NoRun
    /\ lastCall' = "redo"
    /\ UNCHANGED <<MAX_VALUE, sudoku, pc, frame, nodes, sudoku_solved, result, calls, trip, region, other>>

AddToUndoRedo == \E action \in Actions : AddActionCall(action)

NextUndoRedo ==
    \/ AddToUndoRedo
    \/ UndoRedoUndoCall
    \/ UndoRedoRedoCall

SpecUndoRedo == Init /\ [][NextUndoRedo]_vars

----------------------------------------------------------------------------
(* Properties *)

\* the cells that share a row, column or rectangle with a cell (itself included)
Peers(b, key) ==
    UNION {Range(Regions(b)[j]) : j \in {i \in DOMAIN Regions(b) : key \in Range(Regions(b)[i])}}

\* no region of the board holds a non-zero value twice
DupFree(b) ==
    \A j \in DOMAIN Regions(b) :
        \A i1, i2 \in DOMAIN Regions(b)[j] :
            (i1 # i2 /\ b.cells[Regions(b)[j][i1]].value # 0)
                => b.cells[Regions(b)[j][i1]].value # b.cells[Regions(b)[j][i2]].value

\* the boards of the search tree: every node on the path and every child made
NodeBoards ==
    {nodes[n].sudoku : n \in DOMAIN nodes}
        \cup UNION {Range(nodes[n].children) : n \in DOMAIN nodes}

\* a solve call (of the solver or of a pattern) is running or has just ended
SolveSeen == frame.entry # NoSudoku

\* the last action of the undo list of `after` wrote a value that no cell of
\* the written cell's row, column and rectangle held in `before`
WriteIsNew(before, after) ==
    LET a == after.undo[Len(after.undo)]
    IN  \A k \in Peers(before, <<a[1], a[2]>>) : before.cells[k].value # a[4]

\* a step of OnePossibility or Exclusion that wrote to the board it works on
PatternWrote ==
    /\ pc = "pattern"
    /\ pc' \in {"pattern", "returned"}
    /\ Len((IF frame.caller = "node" THEN nodes'[Len(nodes)].sudoku ELSE sudoku').undo)
           = Len(Target.undo) + 1

\* C1: a solve call entered on a board without a repeated value never leaves
\* a repeated value in a region of the caller's board or of a board of the
\* search tree, and every write of OnePossibility, of Exclusion and of a
\* child's construction puts a value that its cell's row, column and rectangle
\* did not hold.
C1_NoRepeatedValue ==
    /\ [](SolveSeen /\ DupFree(frame.entry)
            => DupFree(sudoku) /\ \A b \in NodeBoards : DupFree(b))
    /\ [][(SolveSeen /\ DupFree(frame.entry) /\ PatternWrote)
            => WriteIsNew(Target, IF frame.caller = "node"
                                  THEN nodes'[Len(nodes)].sudoku ELSE sudoku')]_vars
    /\ [][(SolveSeen /\ DupFree(frame.entry) /\ pc = "node_check" /\ pc' = "descend")
            => \A b \in Range(nodes'[Len(nodes)].children) : WriteIsNew(Target, b)]_vars

\* C1 witness: deep in the search tree, after writes of both patterns and of a
\* child's construction on a board that had no repeated value
C1_Witness ==
    /\ SolveSeen /\ DupFree(frame.entry)
    /\ Len(nodes) >= 3
    /\ nodes[Len(nodes)].children # <<>>
    /\ {"OnePossibility", "Exclusion", "BruteForce"}
           \subseteq {nodes[Len(nodes)].sudoku.undo[i][5] : i \in DOMAIN nodes[Len(nodes)].sudoku.undo}

\* C2: solve on the board built from the 4x4 test puzzle returns True and
\* leaves the board of the expected solution.
C2_Solve4x4 ==
    (pc = "idle" /\ lastCall = "solve" /\ frame.entry = CreateFromString(Test4x4))
        => result = "True" /\ SudokuToString(sudoku) = Solution4x4

C2_Witness ==
    /\ pc = "idle" /\ lastCall = "solve" /\ frame.entry = CreateFromString(Test4x4)
    /\ result = "True"
    /\ \E i \in DOMAIN sudoku.undo : sudoku.undo[i][5] = "BruteForce"

\* two cells of a row hold the same non-zero value
RowDup(b) ==
    \E r \in 0..(b.size - 1) : \E c1, c2 \in 0..(b.size - 1) :
        c1 # c2 /\ b.cells[<<r, c1>>].value # 0
                /\ b.cells[<<r, c1>>].value = b.cells[<<r, c2>>].value

\* C4: a board with a value twice in a row is wrong; solve called on it raises
\* nothing, never makes the caller's board or a node's board solved, and
\* returns False.
C4_RowDupFails ==
    /\ (sudoku # NoSudoku /\ RowDup(sudoku)) => IsWrong(sudoku)
    /\ (SolveSeen /\ RowDup(frame.entry))
          => /\ ~IsSolved(sudoku)
             /\ \A b \in NodeBoards : ~IsSolved(b)
             /\ raised = ""
             /\ (pc = "idle" /\ lastCall = "solve") => result = "False"

C4_Witness ==
    /\ pc = "idle" /\ lastCall = "solve" /\ RowDup(frame.entry)
    /\ result = "False"
    /\ Len(sudoku.undo) > Len(frame.entry.undo)

\* C5: set_cell_value on a cell that is not editable raises "Cell not editable"
\* whatever the value, and leaves the board (values, possible values, undo
\* and redo lists) as it was.
C5_NotEditable ==
    [][\A row \in ArgRows(sudoku.size), column \in ArgColumns(sudoku.size),
          value \in ArgValues(sudoku.size) :
            (/\ SetCellValueCall(row, column, value)
             /\ IsRowAndColumnInRange(sudoku, row, column)
             /\ ~sudoku.cells[<<row, column>>].editable)
                => raised' = "Cell not editable" /\ sudoku' = sudoku]_vars

C5_Witness ==
    /\ lastCall = "set_cell_value"
    /\ raised = "Cell not editable"
    /\ \E k \in DOMAIN sudoku.cells : ~sudoku.cells[k].editable

\* C6: set_cell_value on a board of size N raises when row or column is
\* outside 0..N-1 or value is outside 0..N, and a call that raises leaves the
\* board as it was.
C6_RangeChecked ==
    [][\A row \in ArgRows(sudoku.size), column \in ArgColumns(sudoku.size),
          value \in ArgValues(sudoku.size) :
            SetCellValueCall(row, column, value)
                => /\ (~IsRowAndColumnInRange(sudoku, row, column)
                          \/ value \notin 0..sudoku.size) => raised' # ""
                   /\ raised' # "" => sudoku' = sudoku]_vars

\* C9: is_wrong is true exactly when a cell without a value has no possible
\* value or a region holds a non-zero value twice.
WrongByDefinition(b) ==
    \/ \E k \in DOMAIN b.cells : b.cells[k].value = 0 /\ b.cells[k].possible_values = {}
    \/ ~DupFree(b)

C9_IsWrongIff ==
    /\ sudoku # NoSudoku => (IsWrong(sudoku) <=> WrongByDefinition(sudoku))
    /\ \A b \in NodeBoards : IsWrong(b) <=> WrongByDefinition(b)

C9_Witness ==
    /\ sudoku # NoSudoku
    /\ IsWrong(sudoku)
    /\ ~RowDup(sudoku)
    /\ ~DupFree(sudoku)
    /\ \A k \in DOMAIN sudoku.cells :
          sudoku.cells[k].value = 0 => sudoku.cells[k].possible_values # {}

\* C10: set_cell_value of a non-zero value to an empty cell, then undo, then
\* redo leaves the board (values, possible values, undo and redo lists) that
\* the set_cell_value left.
C10_RoundTrip ==
    trip.stage = 3 => raised = "" /\ sudoku = trip.board

C10_Witness ==
    /\ trip.stage = 3
    /\ Len(sudoku.undo) >= 1
    /\ \E k \in DOMAIN sudoku.cells :
          sudoku.cells[k].value = 0 /\ sudoku.cells[k].possible_values # 1..sudoku.size

\* C3: solve on the 9x9 puzzle of test_solve, whether its clues were placed by
\* set_cell_value on an empty board or built by the factory, raises nothing,
\* returns True and leaves the board of the expected solution.
C3_Solve9x9 ==
    (pc = "idle" /\ lastCall = "solve" /\ SudokuToString(frame.entry) = Test9x9)
        => raised = "" /\ result = "True" /\ SudokuToString(sudoku) = Solution9x9

C3_Witness ==
    /\ pc = "idle" /\ lastCall = "solve" /\ SudokuToString(frame.entry) = Test9x9
    /\ \A k \in DOMAIN frame.entry.cells : frame.entry.cells[k].editable
    /\ Len(frame.entry.undo) = Len(Clues9x9)
    /\ IsSolved(sudoku)

\* the board of a size on which nothing is placed: every cell editable, without
\* a value, with the possible values 1..size
EmptyBoard(b, size) ==
    /\ b.size = size
    /\ DOMAIN b.cells = Keys(size)
    /\ \A k \in Keys(size) :
          b.cells[k] = [editable |-> TRUE, value |-> 0, possible_values |-> 1..size]

\* C7: for every supported size, the factory builds the board of an all-empty
\* grid without raising, and this board, like the board that Sudoku(size)
\* constructs, has every cell editable, with value 0 and possible values 1..size.
C7_EmptyBoard ==
    [][\A size \in DOMAIN POSSIBLE_SIZES :
          /\ CreateFromStringCall(EmptyText(size), TRUE)
                => raised' = "" /\ EmptyBoard(sudoku', size)
          /\ (NewSudokuCall(size, TRUE) /\ raised' = "")
                => EmptyBoard(sudoku', size)]_vars

C7_Witness ==
    /\ lastCall = "Sudoku" /\ raised = ""
    /\ sudoku # NoSudoku
    /\ sudoku.size < MAX_VALUE
    /\ EmptyBoard(sudoku, sudoku.size)

\* C8: update_possible_values leaves the cells with a value as they are, and
\* leaves to each cell without a value its former possible values that are in
\* 1..len(cells) and are not the value of a cell of the region; afterwards no
\* cell without a value has the value of another cell as a possible value.
C8_UpdatePossibleValues ==
    [][RegionUpdateCall =>
          /\ Len(region') = Len(region)
          /\ \A i \in DOMAIN region :
                /\ region[i].value # 0 => region'[i] = region[i]
                /\ region[i].value = 0 =>
                      /\ region'[i].value = 0
                      /\ region'[i].editable = region[i].editable
                      /\ region'[i].possible_values =
                            region[i].possible_values
                                \cap ((1..Len(region)) \ {region[j].value : j \in DOMAIN region})
                      /\ \A j \in DOMAIN region \ {i} :
                            region'[j].value # 0
                                => region'[j].value \notin region'[i].possible_values]_vars

C8_Witness ==
    /\ lastCall = "update_possible_values"
    /\ \E i, j, k \in DOMAIN region :
          /\ region[i].value = 0
          /\ region[j].value \in 1..Len(region)
          /\ region[k].value > Len(region)
          /\ region[i].possible_values # {}
          /\ region[i].possible_values = (1..Len(region)) \ {region[j].value}

\* C11: UndoRedo is a pair of stacks whose tops are the ends of the lists:
\* add_action pushes the action on undo and empties redo; undo on a non-empty
\* undo list moves its top to redo, redo on a non-empty redo list moves its top
\* to undo, and each returns the moved action followed by the two lengths;
\* the j-th redo after k undos in a row returns the action that stood at
\* position len - k + j of the undo list, and after the k-th redo both lists
\* are those before the first undo.
C11_TwoStacks ==
    /\ [][\A action \in Actions :
              AddActionCall(action)
                  => /\ undo_redo'.undo = undo_redo.undo \o <<action>>
                     /\ undo_redo'.redo = <<>>]_vars
    /\ [][(UndoRedoUndoCall /\ undo_redo.undo # <<>>)
              => /\ raised' = ""
                 /\ Len(returned') = 7
                 /\ undo_redo.undo = undo_redo'.undo \o <<SubSeq(returned', 1, 5)>>
                 /\ undo_redo'.redo = undo_redo.redo \o <<SubSeq(returned', 1, 5)>>
                 /\ returned'[6] = Len(undo_redo'.undo)
                 /\ returned'[7] = Len(undo_redo'.redo)]_vars
    /\ [][(UndoRedoRedoCall /\ undo_redo.redo # <<>>)
              => /\ raised' = ""
                 /\ Len(returned') = 7
                 /\ undo_redo.redo = undo_redo'.redo \o <<SubSeq(returned', 1, 5)>>
                 /\ undo_redo'.undo = undo_redo.undo \o <<SubSeq(returned', 1, 5)>>
                 /\ returned'[6] = Len(undo_redo'.undo)
                 /\ returned'[7] = Len(undo_redo'.redo)]_vars
    /\ [](run.redos > 0
              => SubSeq(returned, 1, 5)
                     = run.start.undo[Len(run.start.undo) - run.undos + run.redos])
    /\ [](run.undos > 0 /\ run.redos = run.undos => undo_redo = run.start)

C11_Witness ==
    /\ lastCall = "redo"
    /\ run.undos >= 2 /\ run.redos = run.undos
    /\ Len(undo_redo.undo) > run.undos
    /\ \E i, j \in DOMAIN undo_redo.undo : undo_redo.undo[i] # undo_redo.undo[j]

\* two cells are in the same row, the same column or the same rectangle
\* (rect_height rows by rect_width columns)
SharesRegion(b, k1, k2) ==
    \/ k1[1] = k2[1]
    \/ k1[2] = k2[2]
    \/ /\ k1[1] \div b.rect_height = k2[1] \div b.rect_height
       /\ k1[2] \div b.rect_width = k2[2] \div b.rect_width

\* C12: a set_cell_value(row, column, value) with value # 0 that raises
\* nothing gives the cell the value and no possible value, takes the value
\* from the possible values of every other cell of its row, column and
\* rectangle, and changes no other possible value and no other cell's value.
C12_AssignEffect ==
    [][\A row \in ArgRows(sudoku.size), column \in ArgColumns(sudoku.size),
          value \in ArgValues(sudoku.size) :
            (SetCellValueCall(row, column, value) /\ raised' = "" /\ value # 0)
                => /\ DOMAIN sudoku'.cells = DOMAIN sudoku.cells
                   /\ sudoku'.cells[<<row, column>>].value = value
                   /\ sudoku'.cells[<<row, column>>].possible_values = {}
                   /\ \A k \in DOMAIN sudoku.cells \ {<<row, column>>} :
                         /\ sudoku'.cells[k].value = sudoku.cells[k].value
                         /\ sudoku'.cells[k].editable = sudoku.cells[k].editable
                         /\ sudoku'.cells[k].possible_values =
                               IF SharesRegion(sudoku, k, <<row, column>>)
                               THEN sudoku.cells[k].possible_values \ {value}
                               ELSE sudoku.cells[k].possible_values]_vars

C12_Witness ==
    /\ lastCall = "set_cell_value" /\ raised = ""
    /\ sudoku.size = 6
    /\ sudoku.cells[<<0, 1>>].value = 3
    /\ 3 \notin sudoku.cells[<<1, 2>>].possible_values
    /\ 3 \in sudoku.cells[<<2, 0>>].possible_values
    /\ 3 \in sudoku.cells[<<1, 3>>].possible_values

\* C13: copy_from(other), where other is a deepcopy of the board on which
\* set_cell_value calls succeeded since, appends to the board's undo list the
\* actions of other's list beyond the board's own length, in order, raises
\* nothing, and leaves the board equal to other: cell values, possible values
\* and lists.  The board that BruteForce.solve copies from the solved node
\* is left equal to that node's board in the same way.
C13_CopyFrom ==
    /\ [][CopyFromCall
              => /\ raised' = ""
                 /\ sudoku'.undo = sudoku.undo
                       \o SubSeq(other.undo, Len(sudoku.undo) + 1, Len(other.undo))
                 /\ sudoku'.cells = other.cells
                 /\ sudoku' = other]_vars
    /\ []((pc = "idle" /\ lastCall = "solve" /\ sudoku_solved # NoSudoku)
              => sudoku = sudoku_solved)

C13_Witness ==
    /\ lastCall = "copy_from" /\ raised = ""
    /\ sudoku_solved # NoSudoku
    /\ Len(sudoku.undo) >= 3
    /\ sudoku.undo[1][4] # 0 /\ sudoku.undo[2][4] # 0 /\ sudoku.undo[3][4] # 0
    /\ sudoku.undo[2][1] # sudoku.undo[3][1] \/ sudoku.undo[2][2] # sudoku.undo[3][2]
    /\ sudoku = other

\* C14: while BruteForce.solve runs, a step changes the board of the node
\* being solved only: the boards of the nodes above it and of their children
\* (its siblings among them) stay as they are, the children of a node stay as
\* they were made, and the caller's board changes only in copy_from after a
\* solved board was recorded; a search that recorded none returns with the
\* caller's board unchanged.
C14_BranchIsolation ==
    /\ [][(nodes # <<>> /\ nodes' # <<>>)
              => /\ Len(nodes') >= Len(nodes)
                 /\ \A n \in 1..(Len(nodes) - 1) : nodes'[n] = nodes[n]
                 /\ nodes[Len(nodes)].children # <<>>
                       => nodes'[Len(nodes)].children = nodes[Len(nodes)].children
                 /\ Len(nodes') > Len(nodes) => nodes'[Len(nodes)] = nodes[Len(nodes)]]_vars
    /\ [][(nodes # <<>> /\ sudoku' # sudoku)
              => pc = "copy" /\ sudoku_solved # NoSudoku]_vars
    /\ [][(pc = "brute_return" /\ sudoku_solved = NoSudoku)
              => pc' = "idle" /\ result' = "False" /\ sudoku' = sudoku]_vars

C14_Witness ==
    /\ pc = "brute_return" /\ sudoku_solved = NoSudoku
    /\ Len(nodes) >= 3
    /\ Len(nodes[1].children) >= 2
    /\ Len(nodes[Len(nodes)].sudoku.undo) > Len(nodes[Len(nodes) - 1].sudoku.undo) + 1
    /\ nodes[1].sudoku = sudoku

\* C15: the construction of another board changes the outcome of no later
\* set_cell_value on the caller's board, and Sudoku(size) constructs a board
\* of every supported size whatever boards were constructed before.
C15_NoProcessWideState ==
    /\ [][\A size \in OtherSizes :
              (CreateFromStringCall(EmptyText(size), FALSE) /\ sudoku # NoSudoku)
                  => \A row \in ArgRows(sudoku.size), column \in ArgColumns(sudoku.size),
                        value \in ArgValues(sudoku.size) :
                          SetCellValueError(sudoku, row, column, value, MAX_VALUE')
                              = SetCellValueError(sudoku, row, column, value, MAX_VALUE)]_vars
    /\ [](\A size \in DOMAIN POSSIBLE_SIZES : SudokuNewError(size, MAX_VALUE) = "")

\* the number of digit rows of the text is not a supported size, or the length
\* of a digit row differs from the number of digit rows
Malformed(text) ==
    \/ Len(DigitLines(text)) \notin {4, 6, 9}
    \/ \E i \in DOMAIN DigitLines(text) : Len(DigitLines(text)[i]) # Len(DigitLines(text))

\* C16: create_from_string on a malformed text raises ValueError and nothing
\* else, and returns no board.
C16_InvalidFormat ==
    [][\A text \in FactoryTexts :
          (CreateFromStringCall(text, TRUE) /\ Malformed(text))
              => raised' = "ValueError" /\ sudoku' = NoSudoku]_vars

\* the cell without a value that comes first when the rows are read from the
\* top and each row from the left
RowMajorFirstEmpty(b) ==
    CHOOSE k \in DOMAIN b.cells :
        /\ b.cells[k].value = 0
        /\ \A k2 \in DOMAIN b.cells :
              b.cells[k2].value = 0 => k[1] < k2[1] \/ (k[1] = k2[1] /\ k[2] <= k2[2])

C18_NodeFixedPoint ==
    pc = "node_check" => Singles(Target, 1) = {} /\ Countable(Target, 1) = {}

\* the board the running pattern works on, after the step
TargetNext == IF frame.caller = "node" THEN nodes'[Len(nodes)].sudoku ELSE sudoku'

\* C19: every write of Exclusion.solve goes to a cell whose value is 0 at the
\* moment of the write, writes a value that is then among the cell's possible
\* values, and records an action whose old value is 0.
C19_ExclusionWritesEmptyCells ==
    [][(PatternWrote /\ frame.rule = Exclusion)
          => LET a == TargetNext.undo[Len(TargetNext.undo)]
                 cell == Target.cells[<<a[1], a[2]>>]
             IN  /\ cell.value = 0
                 /\ a[4] \in cell.possible_values
                 /\ a[3] = 0]_vars

\* C20: a pattern called with solve_one = True returns after at most one
\* write, OnePossibility as well as Exclusion; a pattern called with
\* solve_one = False goes on scanning after each write.
C20_SolveOne ==
    /\ [](pc = "returned" /\ frame.caller = "api" /\ frame.solve_one
            => Len(sudoku.undo) <= Len(frame.entry.undo) + 1)
    /\ [][(PatternWrote /\ ~frame.solve_one) => pc' = "pattern"]_vars

\* the number of cells without a value
EmptyCells(b) == Cardinality({k \in DOMAIN b.cells : b.cells[k].value = 0})

\* C21: SudokuSolver.solve, once called, ends (it returns or raises), also on
\* boards that are wrong; no write of a pattern raises the number of empty
\* cells and the first write of an application of a pattern lowers it, so
\* that an application that reports a change leaves fewer empty cells than
\* it found; each child's board has fewer empty cells than its parent's board
\* at the moment of branching; the depth of the recursion is at most the
\* number of empty cells of the board solve was called on, plus the root.
C21_Terminates ==
    /\ (lastCall = "running" /\ frame.caller \in {"solver", "node"}) ~> (lastCall = "solve")
    /\ [][PatternWrote
            => /\ EmptyCells(TargetNext) <= EmptyCells(Target)
               /\ ~frame.was_changed => EmptyCells(TargetNext) < EmptyCells(Target)]_vars
    /\ [](pc = "returned" /\ frame.caller = "api" /\ frame.was_changed
            => EmptyCells(sudoku) < EmptyCells(frame.entry))
    /\ [][(pc = "node_check" /\ pc' = "descend")
            => \A b \in Range(nodes'[Len(nodes)].children) :
                   EmptyCells(b) < EmptyCells(Target)]_vars
    /\ [](nodes # <<>> => Len(nodes) <= EmptyCells(frame.entry) + 1)

\* C21 witness: a solve whose search ran on a board that was not wrong has
\* ended without a solution, with empty cells left on the caller's board
C21_Witness ==
    /\ lastCall = "solve"
    /\ result = "False"
    /\ ~IsWrong(frame.entry)
    /\ EmptyCells(sudoku) > 0

\* C22: on the caller's board and on every board of the search tree, after any
\* sequence of set_cell_value, update_possible_values_in_all_regions, pattern
\* applications and solve: a cell that is not editable has a non-zero value and
\* no possible values, a cell with a non-zero value has no possible values,
\* and the possible values of every cell are among 1..size.
C22_CellInvariants ==
    \A b \in ({sudoku} \cup NodeBoards) \ {NoSudoku} :
        \A k \in DOMAIN b.cells :
            LET cell == b.cells[k]
            IN  /\ ~cell.editable => cell.value # 0 /\ cell.possible_values = {}
                /\ cell.value # 0 => cell.possible_values = {}
                /\ cell.possible_values \subseteq 1..b.size

\* C22 witness: the search is two nodes deep on a board with clues, a value
\* set by the caller, a value written by a pattern and a guessed value
C22_Witness ==
    /\ Len(nodes) >= 2
    /\ \E k \in DOMAIN sudoku.cells : ~sudoku.cells[k].editable
    /\ \E i \in DOMAIN sudoku.undo : sudoku.undo[i][5] = "" /\ sudoku.undo[i][4] # 0
    /\ \E i \in DOMAIN nodes[Len(nodes)].sudoku.undo :
           nodes[Len(nodes)].sudoku.undo[i][5] \in {"OnePossibility", "Exclusion"}
    /\ \E i \in DOMAIN nodes[Len(nodes)].sudoku.undo :
           nodes[Len(nodes)].sudoku.undo[i][5] = "BruteForce"

\* C23: a constructed board of size N has the box shape of its size (4: 2x2,
\* 6: 3 wide and 2 high, 9: 3x3) and 3N regions of N distinct cells each: the
\* first N are the rows, the next N the columns, the last N the rectangles
\* of rect_height rows and rect_width columns that tile the grid; every cell
\* is in exactly one region of each kind.
C23_Regions ==
    sudoku # NoSudoku =>
        LET N == sudoku.size
            w == sudoku.rect_width
            h == sudoku.rect_height
            regs == Regions(sudoku)
            In(k, from, to) == {j \in from..to : k \in Range(regs[j])}
            Box(row, column) == (row..(row + h - 1)) \X (column..(column + w - 1))
        IN  /\ <<N, w, h>> \in {<<4, 2, 2>>, <<6, 3, 2>>, <<9, 3, 3>>}
            /\ Len(regs) = 3 * N
            /\ \A j \in DOMAIN regs :
                   Len(regs[j]) = N /\ Cardinality(Range(regs[j])) = N
            /\ \A j \in 1..N : Range(regs[j]) = {j - 1} \X (0..(N - 1))
            /\ \A j \in 1..N : Range(regs[N + j]) = (0..(N - 1)) \X {j - 1}
            /\ \A j \in 1..N :
                   \E x \in 0..(N \div h - 1), y \in 0..(N \div w - 1) :
                       Range(regs[2 * N + j]) = Box(x * h, y * w)
            /\ \A k \in DOMAIN sudoku.cells :
                   /\ Cardinality(In(k, 1, N)) = 1
                   /\ Cardinality(In(k, N + 1, 2 * N)) = 1
                   /\ Cardinality(In(k, 2 * N + 1, 3 * N)) = 1

\* C23 witness: a 6x6 board, whose rectangles are not square, was built
C23_Witness ==
    /\ sudoku # NoSudoku
    /\ sudoku.size = 6
    /\ lastCall = "create_from_string"

\* the possible values of every cell without a value are the values 1..size
\* that no cell of its row, column and rectangle holds
CandidatesExact(b) ==
    \A k \in DOMAIN b.cells :
        b.cells[k].value = 0
            => b.cells[k].possible_values
                   = (1..b.size) \ {b.cells[p].value : p \in Peers(b, k)}

\* C24: after the first set_cell_value on a built board wrote a non-zero value
\* to an empty cell and the action was undone at once (the action is popped,
\* the cell's value is set to 0 on the cell, update_possible_values_in_all_regions
\* is called), the possible values of every empty cell, the cleared one
\* included, are the values 1..size not held in its row, column and rectangle.
C24_RefreshAfterUndo ==
    (trip.stage = 2 /\ raised = "" /\ sudoku.undo = <<>>) => CandidatesExact(sudoku)

\* every action of the board's undo list wrote a non-zero value to a cell
\* that was empty
OnlyNewValues(b) ==
    \A i \in DOMAIN b.undo : b.undo[i][3] = 0 /\ b.undo[i][4] # 0

\* C25: on a built board to which every write so far put a non-zero value in
\* a cell that was empty, the possible values of every empty cell are the
\* values 1..size not held in its row, column and rectangle, and
\* update_possible_values_in_all_regions would change nothing.
C25_IncrementalIsExact ==
    (pc = "idle" /\ sudoku # NoSudoku /\ OnlyNewValues(sudoku))
        => /\ CandidatesExact(sudoku)
           /\ UpdatePossibleValuesInAllRegions(sudoku) = sudoku

\* C25 witness: the caller's set_cell_value put a second non-zero value on a
\* board with clues, each in a cell that was empty
C25_Witness ==
    /\ pc = "idle" /\ sudoku # NoSudoku /\ OnlyNewValues(sudoku)
    /\ lastCall = "set_cell_value" /\ raised = ""
    /\ Len(sudoku.undo) >= 2
    /\ \A i \in DOMAIN sudoku.undo : sudoku.undo[i][5] = ""
    /\ \E k \in DOMAIN sudoku.cells : ~sudoku.cells[k].editable
    /\ \E k \in DOMAIN sudoku.cells : sudoku.cells[k].value = 0

\* C26: while SudokuSolver.solve runs and after it returned or raised, every
\* cell that had a non-zero value when solve was called, a clue or a value
\* set by the caller, has that value on the caller's board and on every board
\* of the search tree.
C26_SolveKeepsValues ==
    (frame.entry # NoSudoku /\ (frame.caller \in {"solver", "node"} \/ lastCall = "solve"))
        => \A b \in {sudoku} \cup NodeBoards :
               \A k \in DOMAIN frame.entry.cells :
                   frame.entry.cells[k].value # 0
                       => b.cells[k].value = frame.entry.cells[k].value

\* C26 witness: solve returned True after copy_from replayed guessed values,
\* on a board that had a clue and a value set by the caller when it was called
C26_Witness ==
    /\ lastCall = "solve"
    /\ result = "True"
    /\ \E k \in DOMAIN frame.entry.cells : ~frame.entry.cells[k].editable
    /\ \E k \in DOMAIN frame.entry.cells :
           frame.entry.cells[k].editable /\ frame.entry.cells[k].value # 0
    /\ \E i \in DOMAIN sudoku.undo : sudoku.undo[i][5] = "BruteForce"
====
